---- MODULE Spec2Model ----
(***************************************************************************)
(* Format registry and geometry calculator of dcv-color-primitives         *)
(* (src/src/pixel_format.rs).                                              *)
(*                                                                         *)
(* The three public functions are pure; the state of the model is the last *)
(* call: its arguments, the caller's output slice before and after it, and *)
(* what the call did (returned true, returned false, or panicked).         *)
(*                                                                         *)
(* Machine integers keep their width.  A u32 or usize value is a sequence  *)
(* of 16-bit digits, least significant first (two digits for u32, four for *)
(* a 64-bit usize), so that values beyond the range of TLC's own integers  *)
(* (2^31 .. 2^64-1) are computed exactly.                                  *)
(*                                                                         *)
(* The three descriptor tables are built once, by the const fns            *)
(* make_pf_spec and make_plane_spec, before any call: they are part of the *)
(* initial state and no action changes them.                               *)
(***************************************************************************)
EXTENDS Integers, Sequences, FiniteSets, TLC

VARIABLES PF_SPECS, STRIDE_SPECS, HEIGHT_SPECS,
          overflow_checks, op, pixel_format, width, height, last_plane,
          num_planes, strides, buffers_in, buffers_size, ret, overflowed

tables == <<PF_SPECS, STRIDE_SPECS, HEIGHT_SPECS>>

vars == <<tables, overflow_checks, op, pixel_format, width, height, last_plane,
          num_planes, strides, buffers_in, buffers_size, ret, overflowed>>

----------------------------------------------------------------------------
(* Machine words                                                           *)

\* One digit holds 16 bits.
Base == 2^16

\* u32: two 16-bit digits.
U32Digits == 2

\* usize on a 64-bit target: four 16-bit digits.
UsizeDigits == 4

\* A slice of n elements that all hold v.
RECURSIVE Filled(_, _)
Filled(n, v) == IF n = 0 THEN <<>> ELSE <<v>> \o Filled(n - 1, v)

Zeros(n) == Filled(n, 0)

\* The word of n digits holding the small number k (k < 2^31).
Word(n, k) == <<k % Base, k \div Base>> \o Zeros(n - 2)

U32(k) == Word(U32Digits, k)

Usize(k) == Word(UsizeDigits, k)

IsZero(a) == \A i \in 1..Len(a) : a[i] = 0

\* The value of a word that fits TLC's integers (its high digits are zero).
Fits(a) == \A i \in 1..Len(a) : i > 2 => a[i] = 0

Val(a) == IF Len(a) = 0 THEN 0
          ELSE IF Len(a) = 1 THEN a[1]
          ELSE a[1] + Base * (a[2] % (2^15))

\* `x as usize` of a u32: zero extension.
AsUsize(a) == a \o Zeros(UsizeDigits - Len(a))

\* The low n digits of a (wrapping to n digits), for n <= Len(a).
Trunc(a, n) == SubSeq(a, 1, n)

\* Some digit above the n-th is set: the value does not fit n digits.
Exceeds(a, n) == \E i \in 1..Len(a) : i > n /\ a[i] # 0

\* a < b, for words of the same length.
RECURSIVE LessAt(_, _, _)
LessAt(a, b, i) ==
    IF i = 0 THEN FALSE
    ELSE IF a[i] # b[i] THEN a[i] < b[i]
    ELSE LessAt(a, b, i - 1)

Less(a, b) == LessAt(a, b, Len(a))

\* Bitwise and / or of two numbers below 2^31.
RECURSIVE BitAnd(_, _)
BitAnd(x, y) ==
    IF x = 0 \/ y = 0 THEN 0
    ELSE (x % 2) * (y % 2) + 2 * BitAnd(x \div 2, y \div 2)

RECURSIVE BitOr(_, _)
BitOr(x, y) ==
    IF x = 0 THEN y
    ELSE IF y = 0 THEN x
    ELSE (IF x % 2 = 1 \/ y % 2 = 1 THEN 1 ELSE 0) + 2 * BitOr(x \div 2, y \div 2)

\* Digit-wise and / or of two words of the same length.
RECURSIVE WordAnd(_, _)
WordAnd(a, b) ==
    IF a = <<>> THEN <<>>
    ELSE <<BitAnd(Head(a), Head(b))>> \o WordAnd(Tail(a), Tail(b))

RECURSIVE WordOr(_, _)
WordOr(a, b) ==
    IF a = <<>> THEN <<>>
    ELSE <<BitOr(Head(a), Head(b))>> \o WordOr(Tail(a), Tail(b))

\* a >> r for 0 <= r < 16: each digit takes the low r bits of the next one.
RECURSIVE ShrBits(_, _)
ShrBits(a, r) ==
    IF a = <<>> THEN <<>>
    ELSE <<(Head(a) \div (2^r))
             + (IF Len(a) > 1 THEN (a[2] % (2^r)) * (2^(16 - r)) ELSE 0)>>
         \o ShrBits(Tail(a), r)

\* a >> s for 0 <= s < 16 * Len(a): whole digits first, then bits.
WordShr(a, s) ==
    IF s = 0 THEN a
    ELSE ShrBits(SubSeq(a, 1 + (s \div 16), Len(a)) \o Zeros(s \div 16), s % 16)

\* x * y + c for digits x, y and a carry c, as a low digit and a carry out.
\* The product is formed in two halves to stay below 2^31.
MulDigit(x, y, c) ==
    LET p0 == x * (y % 256)
        p1 == x * (y \div 256)
        low == p0 + 256 * (p1 % 256) + c
    IN [lo |-> low % Base, hi |-> (p1 \div 256) + (low \div Base)]

\* a * d for a word a and a digit d: Len(a) + 1 digits.
RECURSIVE MulRow(_, _, _)
MulRow(a, d, c) ==
    IF a = <<>> THEN <<c>>
    ELSE LET t == MulDigit(Head(a), d, c)
         IN <<t.lo>> \o MulRow(Tail(a), d, t.hi)

\* a + b + c for words with Len(b) <= Len(a): Len(a) + 1 digits.
RECURSIVE AddRow(_, _, _)
AddRow(a, b, c) ==
    IF a = <<>> THEN <<c>>
    ELSE IF b = <<>>
    THEN <<(Head(a) + c) % Base>> \o AddRow(Tail(a), b, (Head(a) + c) \div Base)
    ELSE LET t == Head(a) + Head(b) + c
         IN <<t % Base>> \o AddRow(Tail(a), Tail(b), t \div Base)

\* The exact sum: Len(a) + 1 digits.
Add(a, b) == AddRow(a, b, 0)

\* The exact product: Len(a) + Len(b) digits.  A zero digit of b adds
\* nothing, and its row is skipped.
RECURSIVE Mul(_, _)
Mul(a, b) ==
    IF b = <<>> THEN Zeros(Len(a))
    ELSE IF Head(b) = 0 THEN <<0>> \o Mul(a, Tail(b))
    ELSE LET row == MulRow(a, Head(b), 0)
             rest == <<0>> \o Mul(a, Tail(b))
         IN Trunc(AddRow(rest, row, 0), Len(a) + Len(b))

\* a - b modulo Base^Len(a).
RECURSIVE SubRow(_, _, _)
SubRow(a, b, borrow) ==
    IF a = <<>> THEN <<>>
    ELSE LET t == Head(a) - Head(b) - borrow
         IN <<t % Base>> \o SubRow(Tail(a), Tail(b), IF t < 0 THEN 1 ELSE 0)

\* u32::wrapping_sub, u32::wrapping_mul, u32::wrapping_shr.
wrapping_sub(a, b) == SubRow(a, b, 0)

wrapping_mul(a, b) == Trunc(Mul(a, b), Len(a))

wrapping_shr(a, n) == WordShr(a, n % (16 * Len(a)))

\* usize `+` and `*`: the wrapped value, and whether the exact one overflowed.
UsizeMul(a, b) ==
    LET p == Mul(a, b)
    IN [val |-> Trunc(p, UsizeDigits), ovf |-> Exceeds(p, UsizeDigits)]

UsizeAdd(a, b) ==
    LET s == Add(a, b)
    IN [val |-> Trunc(s, UsizeDigits), ovf |-> Exceeds(s, UsizeDigits)]

----------------------------------------------------------------------------
(* Format registry                                                         *)

MAX_NUMBER_OF_PLANES == 4

\* PixelFormat ordinals (#[repr(C)] enum, in declaration order).
Argb == 0
Bgra == 1
Bgr == 2
Rgba == 3
Rgb == 4
Bgra30 == 5
Rgba30 == 6
I444 == 7
I422 == 8
I420 == 9
Nv12 == 10
P410 == 11
P010 == 12

PixelFormat == Argb..P010

STRIDE_AUTO == 0

DEFAULT_STRIDES == Filled(MAX_NUMBER_OF_PLANES, Usize(STRIDE_AUTO))

\* (byte_count << 4) | (height << 3) | (width << 2) | planes
make_pf_spec(planes, w, h, byte_count) ==
    BitOr(BitOr(BitOr(byte_count * 2^4, h * 2^3), w * 2^2), planes)

\* Variant: the four plane fields packed five bits apart.
make_plane_spec_5bit_fields(plane0, plane1, plane2, plane3) ==
    BitOr(BitOr(BitOr(plane3 * 2^15, plane2 * 2^10), plane1 * 2^5), plane0)

\* (plane3 << 18) | (plane2 << 12) | (plane1 << 6) | plane0
make_plane_spec(plane0, plane1, plane2, plane3) ==
    BitOr(BitOr(BitOr(plane3 * 2^18, plane2 * 2^12), plane1 * 2^6), plane0)

I_P == 32

\* The tables are tuples, which count from 1: the entry of ordinal f is
\* element f + 1.
PF_SPECS_init == <<
    make_pf_spec(0, 0, 0, 4), \* Argb
    make_pf_spec(0, 0, 0, 4), \* Bgra
    make_pf_spec(0, 0, 0, 3), \* Bgr
    make_pf_spec(0, 0, 0, 4), \* Rgba
    make_pf_spec(0, 0, 0, 3), \* Rgb
    make_pf_spec(0, 0, 0, 4), \* Bgra30
    make_pf_spec(0, 0, 0, 4), \* Rgba30
    make_pf_spec(2, 0, 0, 1), \* I444
    make_pf_spec(2, 1, 0, 1), \* I422
    make_pf_spec(2, 1, 1, 1), \* I420
    make_pf_spec(1, 1, 1, 1), \* Nv12
    make_pf_spec(2, 0, 0, 2), \* P410
    make_pf_spec(2, 1, 1, 2)  \* P010
    >>

STRIDE_SPECS_init == <<
    make_plane_spec(0, I_P, I_P, I_P), \* Argb
    make_plane_spec(0, I_P, I_P, I_P), \* Bgra
    make_plane_spec(0, I_P, I_P, I_P), \* Bgr
    make_plane_spec(0, I_P, I_P, I_P), \* Rgba
    make_plane_spec(0, I_P, I_P, I_P), \* Rgb
    make_plane_spec(0, I_P, I_P, I_P), \* Bgra30
    make_plane_spec(0, I_P, I_P, I_P), \* Rgba30
    make_plane_spec(0, 0, 0, I_P),     \* I444
    make_plane_spec(0, 1, 1, I_P),     \* I422
    make_plane_spec(0, 1, 1, I_P),     \* I420
    make_plane_spec(0, 0, I_P, I_P),   \* Nv12
    make_plane_spec(0, 0, 0, I_P),     \* P410
    make_plane_spec(0, 1, 1, I_P)      \* P010
    >>

HEIGHT_SPECS_init == <<
    make_plane_spec(0, I_P, I_P, I_P), \* Argb
    make_plane_spec(0, I_P, I_P, I_P), \* Bgra
    make_plane_spec(0, I_P, I_P, I_P), \* Bgr
    make_plane_spec(0, I_P, I_P, I_P), \* Rgba
    make_plane_spec(0, I_P, I_P, I_P), \* Rgb
    make_plane_spec(0, I_P, I_P, I_P), \* Bgra30
    make_plane_spec(0, I_P, I_P, I_P), \* Rgba30
    make_plane_spec(0, 0, 0, I_P),     \* I444
    make_plane_spec(0, 0, 0, I_P),     \* I422
    make_plane_spec(0, 1, 1, I_P),     \* I420
    make_plane_spec(0, 1, I_P, I_P),   \* Nv12
    make_plane_spec(0, 0, 0, I_P),     \* P410
    make_plane_spec(0, 1, 1, I_P)      \* P010
    >>

\* Field extraction.  The descriptors are below 2^24, so `>>` is a division.
get_pf_width(pf) == BitAnd(pf \div 2^2, 1)

\* Variant: the height flag read from the width flag's bit.
get_pf_height_bit2(pf) == BitAnd(pf \div 2^2, 1)

get_pf_height(pf) == BitAnd(pf \div 2^3, 1)

get_pf_byte_count(pf) == pf \div 2^4

get_pf_planes(pf) == BitAnd(pf, 3)

get_plane_value(bpp, plane) == BitAnd(bpp \div 2^(6 * plane), 63)

\* (I_P != get_plane_value(bpp, plane)) as usize
get_plane_mask(bpp, plane) ==
    Usize(IF I_P # get_plane_value(bpp, plane) THEN 1 ELSE 0)

\* dimension.wrapping_shr(value) as usize: the shift amount is taken modulo
\* 32, so the sentinel 32 shifts by 0 and yields the dimension itself.
get_plane_spec(dimension, bpp, plane) ==
    AsUsize(wrapping_shr(dimension, get_plane_value(bpp, plane)))

----------------------------------------------------------------------------
(* Geometry calculator                                                     *)

\* Variant: last_plane compared with the plane index by subtraction alone.
is_compatible_exact(pf, w, h, lp) ==
    LET spec == PF_SPECS[pf + 1]
    IN IsZero(WordOr(WordOr(WordAnd(w, U32(get_pf_width(spec))),
                            WordAnd(h, U32(get_pf_height(spec)))),
                     wrapping_sub(lp, U32(get_pf_planes(spec)))))

is_compatible(pf, w, h, lp) ==
    LET spec == PF_SPECS[pf + 1]
    IN IsZero(WordOr(WordOr(WordAnd(w, U32(get_pf_width(spec))),
                            WordAnd(h, U32(get_pf_height(spec)))),
                     wrapping_mul(lp, wrapping_sub(lp, U32(get_pf_planes(spec))))))

\* Variant: num_planes used as the last-plane index, without the `- 1`.
are_planes_compatible_no_decrement(pf, n) ==
    LET spec == PF_SPECS[pf + 1]
    IN IsZero(wrapping_mul(n, wrapping_sub(n, U32(get_pf_planes(spec)))))

are_planes_compatible(pf, n) ==
    LET lp == wrapping_sub(n, U32(1))
        spec == PF_SPECS[pf + 1]
    IN IsZero(wrapping_mul(lp, wrapping_sub(lp, U32(get_pf_planes(spec)))))

\* Variant: the length of buffers_size is not checked.
BoundsCheckFails_no_buffers(lp, strds, bufs) ==
    \/ ~Less(lp, Usize(MAX_NUMBER_OF_PLANES))
    \/ ~Less(lp, Usize(Len(strds)))

\* Variant: the length of strides is not checked.
BoundsCheckFails_no_strides(lp, strds, bufs) ==
    \/ ~Less(lp, Usize(MAX_NUMBER_OF_PLANES))
    \/ ~Less(lp, Usize(Len(bufs)))

\* The early return of get_buffers_size; lp is `last_plane as usize`.
BoundsCheckFails(lp, strds, bufs) ==
    \/ ~Less(lp, Usize(MAX_NUMBER_OF_PLANES))
    \/ ~Less(lp, Usize(Len(strds)))
    \/ ~Less(lp, Usize(Len(bufs)))

\* Variant: the automatic stride counts samples, not bytes.
AutoStride_no_byte_count(pf, w, i) ==
    LET stride_spec == STRIDE_SPECS[pf + 1]
        m == UsizeMul(get_plane_mask(stride_spec, i), get_plane_spec(w, stride_spec, i))
    IN [val |-> m.val, ovf |-> m.ovf]

\* get_plane_mask * get_plane_spec(width) * byte_count, for plane slot i.
AutoStride(pf, w, i) ==
    LET stride_spec == STRIDE_SPECS[pf + 1]
        byte_count == Usize(get_pf_byte_count(PF_SPECS[pf + 1]))
        m == UsizeMul(get_plane_mask(stride_spec, i), get_plane_spec(w, stride_spec, i))
        r == UsizeMul(m.val, byte_count)
    IN [val |-> r.val, ovf |-> m.ovf \/ r.ovf]

\* Variant: the caller's stride is ignored.
EffectiveStride_always_auto(pf, w, strds, i) == AutoStride(pf, w, i)

\* stride[i] of the local array, for plane slot i (0-based; the tuples of
\* the model are 1-based, so slot i is element i + 1).
EffectiveStride(pf, w, strds, i) ==
    IF i >= Len(strds) \/ strds[i + 1] = Usize(STRIDE_AUTO)
    THEN AutoStride(pf, w, i)
    ELSE [val |-> strds[i + 1], ovf |-> FALSE]

\* Variant: the third plane is left out of the combined sum.
CombinedSize_without_plane2(pf, h, stride) ==
    LET height_spec == HEIGHT_SPECS[pf + 1]
        p0 == UsizeMul(stride[1], get_plane_spec(h, height_spec, 0))
        p1 == UsizeMul(stride[2], get_plane_spec(h, height_spec, 1))
        p3 == UsizeMul(stride[4], get_plane_spec(h, height_spec, 3))
        s01 == UsizeAdd(p0.val, p1.val)
        t == UsizeAdd(s01.val, p3.val)
    IN [val |-> t.val, ovf |-> p0.ovf \/ p1.ovf \/ p3.ovf \/ s01.ovf \/ t.ovf]

\* The combined-mode expression: (s0*h0 + s1*h1) + (s2*h2 + s3*h3).
CombinedSize(pf, h, stride) ==
    LET height_spec == HEIGHT_SPECS[pf + 1]
        p0 == UsizeMul(stride[1], get_plane_spec(h, height_spec, 0))
        p1 == UsizeMul(stride[2], get_plane_spec(h, height_spec, 1))
        p2 == UsizeMul(stride[3], get_plane_spec(h, height_spec, 2))
        p3 == UsizeMul(stride[4], get_plane_spec(h, height_spec, 3))
        s01 == UsizeAdd(p0.val, p1.val)
        s23 == UsizeAdd(p2.val, p3.val)
        t == UsizeAdd(s01.val, s23.val)
    IN [val |-> t.val,
        ovf |-> p0.ovf \/ p1.ovf \/ p2.ovf \/ p3.ovf
                   \/ s01.ovf \/ s23.ovf \/ t.ovf]

\* The per-plane loop from plane i to plane n, writing into bufs.  With
\* overflow checks the first overflowing product panics and leaves the
\* planes before it written.
RECURSIVE PerPlaneSizes(_, _, _, _, _, _, _)
PerPlaneSizes(pf, h, stride, bufs, i, n, checks) ==
    IF i > n THEN [buffers_size |-> bufs, panic |-> FALSE, ovf |-> FALSE]
    ELSE LET p == UsizeMul(stride[i + 1], get_plane_spec(h, HEIGHT_SPECS[pf + 1], i))
         IN IF p.ovf /\ checks
            THEN [buffers_size |-> bufs, panic |-> TRUE, ovf |-> TRUE]
            ELSE LET rest == PerPlaneSizes(pf, h, stride,
                                           [bufs EXCEPT ![i + 1] = p.val],
                                           i + 1, n, checks)
                 IN [rest EXCEPT !.ovf = @ \/ p.ovf]

\* get_buffers_size: what it returns ("true", "false", or "panic" when an
\* index is out of bounds or, with overflow checks, an operation overflows),
\* the caller's slice after the call, and whether any operation overflowed.
get_buffers_size(pf, w, h, last, strds, bufs, checks) ==
    LET lp == AsUsize(last)
    IN IF BoundsCheckFails(lp, strds, bufs)
       THEN [ret |-> "false", buffers_size |-> bufs, overflowed |-> FALSE]
       ELSE
       LET s0 == EffectiveStride(pf, w, strds, 0)
           s1 == EffectiveStride(pf, w, strds, 1)
           s2 == EffectiveStride(pf, w, strds, 2)
           s3 == EffectiveStride(pf, w, strds, 3)
           stride == <<s0.val, s1.val, s2.val, s3.val>>
           st_ovf == s0.ovf \/ s1.ovf \/ s2.ovf \/ s3.ovf
       IN IF st_ovf /\ checks
          THEN [ret |-> "panic", buffers_size |-> bufs, overflowed |-> TRUE]
          ELSE IF IsZero(lp)
          THEN LET c == CombinedSize(pf, h, stride)
               IN IF Len(bufs) = 0 \/ (c.ovf /\ checks)
                  THEN [ret |-> "panic", buffers_size |-> bufs,
                        overflowed |-> st_ovf \/ c.ovf]
                  ELSE [ret |-> "true", buffers_size |-> [bufs EXCEPT ![1] = c.val],
                        overflowed |-> st_ovf \/ c.ovf]
          ELSE \* buffers_size[..last_plane + 1] and stride[..last_plane + 1]
               IF ~Less(lp, Usize(Len(bufs))) \/ ~Less(lp, Usize(MAX_NUMBER_OF_PLANES))
               THEN [ret |-> "panic", buffers_size |-> bufs, overflowed |-> st_ovf]
               ELSE LET r == PerPlaneSizes(pf, h, stride, bufs, 0, Val(lp), checks)
                    IN [ret |-> IF r.panic THEN "panic" ELSE "true",
                        buffers_size |-> r.buffers_size,
                        overflowed |-> st_ovf \/ r.ovf]

----------------------------------------------------------------------------
(* Calls                                                                   *)

\* Image dimensions run over 0..MaxDim.
MaxDim == 4

\* last_plane runs over 0..MaxLastPlane, num_planes over 0..MaxLastPlane + 1.
MaxLastPlane == 4

\* The strides and buffers_size slices have 0..MaxSliceLen elements.
MaxSliceLen == 5

\* 2^16, 2^17, 2^31, 2^31 + 2, 2^32 - 2, 2^32 - 1
Pow16 == <<0, 1>>
Pow17 == <<0, 2>>
Pow31 == <<0, 2^15>>
Pow31Plus2 == <<2, 2^15>>
MaxU32Even == <<Base - 2, Base - 1>>
MaxU32 == <<Base - 1, Base - 1>>

Dims == {U32(k) : k \in 0..MaxDim}

CompatDims == Dims \cup {Pow31, MaxU32}

LastPlanes == {U32(k) : k \in 0..MaxLastPlane}
                  \cup {Pow16, Pow17, <<1, 1>>, Pow31, <<1, 2^15>>, Pow31Plus2, MaxU32}

NumPlanes == {U32(k) : k \in 0..(MaxLastPlane + 1)}
                 \cup {<<1, 1>>, <<1, 2^15>>, <<3, 2^15>>, MaxU32}

\* What the caller's buffers_size slice holds before a call.
Stale == Usize(57005)

\* Explicit strides the caller may supply.
ExplicitStrides == {Usize(5), Usize(64)}

\* The calls of get_buffers_size: every geometry with automatic strides,
\* every combination of slice lengths and last_plane, and every mix of
\* automatic and explicit strides.
SizingCalls ==
    [f : PixelFormat, w : Dims, h : Dims,
     lp : {U32(k) : k \in 0..(MAX_NUMBER_OF_PLANES - 1)},
     strides : {Filled(n, Usize(STRIDE_AUTO)) : n \in 1..MaxSliceLen},
     buffers : {Filled(MAX_NUMBER_OF_PLANES, Stale)}]

SliceCalls ==
    [f : PixelFormat, w : {U32(4)}, h : {U32(4)},
     lp : {U32(k) : k \in 0..MaxLastPlane} \cup {Pow16, MaxU32},
     strides : {Filled(n, v) : n \in 0..MaxSliceLen,
                               v \in {Usize(STRIDE_AUTO), Usize(5)}},
     buffers : {Filled(n, Stale) : n \in 0..MaxSliceLen}]

StrideCalls ==
    [f : PixelFormat, w : {U32(3), U32(4)}, h : {U32(3), U32(4)},
     lp : {U32(k) : k \in 0..(MAX_NUMBER_OF_PLANES - 1)},
     strides : {<<a, b, c, d>> : a, b, c, d \in {Usize(STRIDE_AUTO)} \cup ExplicitStrides},
     buffers : {Filled(MAX_NUMBER_OF_PLANES, Stale)}]

Calls == SizingCalls \cup SliceCalls \cup StrideCalls

\* Calls at the edge of the integer ranges.
ExtremeCalls ==
    [f : PixelFormat,
     w : {U32(4), Pow16, Pow31, MaxU32Even, MaxU32},
     h : {U32(4), Pow16, Pow31, MaxU32Even, MaxU32},
     lp : {U32(k) : k \in 0..(MAX_NUMBER_OF_PLANES - 1)},
     strides : {DEFAULT_STRIDES,
                [DEFAULT_STRIDES EXCEPT ![1] = <<0, 0, 1, 0>>],
                [DEFAULT_STRIDES EXCEPT ![1] = <<0, 0, 0, 2^15>>],
                Filled(MAX_NUMBER_OF_PLANES, <<Base - 1, Base - 1, Base - 1, Base - 1>>)},
     buffers : {Filled(MAX_NUMBER_OF_PLANES, Stale)}]

Outcome(b) == IF b THEN "true" ELSE "false"

\* Each behaviour is one call, made from the initial state.
\* The build's overflow-checks setting: with it an overflowing usize `+` or
\* `*` panics, without it the result wraps.
Init ==
    /\ PF_SPECS = PF_SPECS_init
    /\ STRIDE_SPECS = STRIDE_SPECS_init
    /\ HEIGHT_SPECS = HEIGHT_SPECS_init
    /\ overflow_checks \in BOOLEAN
    /\ op = "none"
    /\ pixel_format = Argb
    /\ width = U32(0)
    /\ height = U32(0)
    /\ last_plane = U32(0)
    /\ num_planes = U32(0)
    /\ strides = <<>>
    /\ buffers_in = <<>>
    /\ buffers_size = <<>>
    /\ ret = "none"
    /\ overflowed = FALSE

CallIsCompatible ==
    /\ op = "none"
    /\ \E f \in PixelFormat, w \in CompatDims, h \in CompatDims, lp \in LastPlanes :
        /\ op' = "is_compatible"
        /\ pixel_format' = f
        /\ width' = w
        /\ height' = h
        /\ last_plane' = lp
        /\ ret' = Outcome(is_compatible(f, w, h, lp))
        /\ UNCHANGED <<tables, overflow_checks, num_planes, strides, buffers_in,
                       buffers_size, overflowed>>

CallArePlanesCompatible ==
    /\ op = "none"
    /\ \E f \in PixelFormat, n \in NumPlanes :
        /\ op' = "are_planes_compatible"
        /\ pixel_format' = f
        /\ num_planes' = n
        /\ ret' = Outcome(are_planes_compatible(f, n))
        /\ UNCHANGED <<tables, overflow_checks, width, height, last_plane, strides,
                       buffers_in, buffers_size, overflowed>>

GetBuffersSizeOf(c) ==
    \E r \in {get_buffers_size(c.f, c.w, c.h, c.lp, c.strides, c.buffers,
                                overflow_checks)} :
       /\ op' = "get_buffers_size"
       /\ pixel_format' = c.f
       /\ width' = c.w
       /\ height' = c.h
       /\ last_plane' = c.lp
       /\ strides' = c.strides
       /\ buffers_in' = c.buffers
       /\ buffers_size' = r.buffers_size
       /\ ret' = r.ret
       /\ overflowed' = r.overflowed
       /\ UNCHANGED <<tables, overflow_checks, num_planes>>

CallGetBuffersSize ==
    /\ op = "none"
    /\ \E c \in Calls : GetBuffersSizeOf(c)

CallGetBuffersSizeExtreme ==
    /\ op = "none"
    /\ \E c \in ExtremeCalls : GetBuffersSizeOf(c)

Next == CallIsCompatible \/ CallArePlanesCompatible \/ CallGetBuffersSize

Spec == Init /\ [][Next]_vars

NextExtreme ==
    CallIsCompatible \/ CallArePlanesCompatible \/ CallGetBuffersSizeExtreme

SpecExtreme == Init /\ [][NextExtreme]_vars

----------------------------------------------------------------------------
(* The formats as the specification describes them                         *)

PackedFormats == {Argb, Bgra, Bgr, Rgba, Rgb, Bgra30, Rgba30}

\* 0 for packed formats, 1 for Nv12, 2 for I444, I422, I420, P410, P010.
LastPlaneIndex(f) == IF f \in PackedFormats THEN 0 ELSE IF f = Nv12 THEN 1 ELSE 2

PlaneCount(f) == LastPlaneIndex(f) + 1

EvenWidthFormats == {I422, I420, Nv12, P010}

EvenHeightFormats == {I420, Nv12, P010}

BytesPerSample(f) ==
    IF f \in {Bgr, Rgb} THEN 3
    ELSE IF f \in PackedFormats THEN 4
    ELSE IF f \in {P410, P010} THEN 2
    ELSE 1

\* The subsampling shift of plane i's row length and of its row count.
WidthShift(f, i) == IF f \in {I422, I420, P010} /\ i \in {1, 2} THEN 1 ELSE 0

HeightShift(f, i) ==
    IF (f \in {I420, P010} /\ i \in {1, 2}) \/ (f = Nv12 /\ i = 1) THEN 1 ELSE 0

IsOdd(a) == a[1] % 2 = 1

ParityOK(f, w, h) ==
    /\ f \in EvenWidthFormats => ~IsOdd(w)
    /\ f \in EvenHeightFormats => ~IsOdd(h)

\* The call's last_plane is below 2^16, and then Lp is its value.
LpSmall == last_plane[2] = 0

Lp == last_plane[1]

\* last_plane >= MAX_NUMBER_OF_PLANES, or a slice has fewer than
\* last_plane + 1 elements.
OutOfRange ==
    \/ ~LpSmall
    \/ Lp >= MAX_NUMBER_OF_PLANES
    \/ Len(strides) < Lp + 1
    \/ Len(buffers_in) < Lp + 1

AllAuto(strds) == \A i \in 1..Len(strds) : strds[i] = Usize(STRIDE_AUTO)

\* Only the stride of plane 0 is explicit.
OnlyPlane0Explicit(strds) ==
    /\ Len(strds) >= 1
    /\ strds[1] # Usize(STRIDE_AUTO)
    /\ \A i \in 2..Len(strds) : strds[i] = Usize(STRIDE_AUTO)

\* The sum of the first n elements of a slice of small sizes.
RECURSIVE SumOf(_, _)
SumOf(sizes, n) == IF n = 0 THEN 0 ELSE Val(sizes[n]) + SumOf(sizes, n - 1)

----------------------------------------------------------------------------
(* Claims                                                                  *)

\* C1 (as stated): is_compatible returns true if and only if width and
\* height satisfy the format's parity flags and last_plane is exactly the
\* format's last-plane index; so it returns false for a multi-plane format
\* when last_plane is 0.
C1_ExactLastPlane ==
    op = "is_compatible" =>
        (ret = "true" <=>
            /\ ParityOK(pixel_format, width, height)
            /\ last_plane = U32(LastPlaneIndex(pixel_format)))

\* last_plane * (last_plane - index) is 0 modulo 2^32: last_plane is 0 or the
\* index, or the 32-bit product wraps to 0 (a multiple of 2^16 when the index
\* is 0; 2^31 or 2^31 + 2 when the index is 2).
ProductVanishes(lp, index) ==
    \/ lp = U32(0)
    \/ lp = U32(index)
    \/ index = 0 /\ lp[1] = 0
    \/ index = 2 /\ lp \in {Pow31, Pow31Plus2}

\* C1 (amended): is_compatible returns true if and only if width and height
\* satisfy the format's parity flags and last_plane * (last_plane - index)
\* is 0 modulo 2^32, that is last_plane is 0 or the format's last-plane
\* index (or a value at which the 32-bit product wraps to 0); a multi-plane
\* format accepts last_plane 0.
C1_ZeroOrLastPlane ==
    op = "is_compatible" =>
        (ret = "true" <=>
            /\ ParityOK(pixel_format, width, height)
            /\ ProductVanishes(last_plane, LastPlaneIndex(pixel_format)))

C1_Witness ==
    /\ op = "is_compatible"
    /\ pixel_format = I420
    /\ width = U32(4)
    /\ height = U32(4)
    /\ last_plane = U32(0)
    /\ ret = "true"

NumPlanesInRange == num_planes[2] = 0 /\ num_planes[1] <= MAX_NUMBER_OF_PLANES

\* C2 (as stated): for n in 0..MAX_NUMBER_OF_PLANES, are_planes_compatible
\* returns true if and only if n is the format's plane count.
C2_ExactPlaneCount ==
    op = "are_planes_compatible" /\ NumPlanesInRange =>
        (ret = "true" <=> num_planes[1] = PlaneCount(pixel_format))

\* C2 (amended): for n in 0..MAX_NUMBER_OF_PLANES, are_planes_compatible
\* returns true if and only if n is 1 or the format's plane count.
C2_OneOrPlaneCount ==
    op = "are_planes_compatible" /\ NumPlanesInRange =>
        (ret = "true" <=> num_planes[1] \in {1, PlaneCount(pixel_format)})

C2_Witness ==
    /\ op = "are_planes_compatible"
    /\ pixel_format = I420
    /\ num_planes = U32(1)
    /\ ret = "true"

\* C3: get_buffers_size returns false whenever last_plane is at least
\* MAX_NUMBER_OF_PLANES or a slice has fewer than last_plane + 1 elements,
\* and then no element of buffers_size is modified.
C3_RejectsOutOfRange ==
    op = "get_buffers_size" /\ OutOfRange =>
        ret = "false" /\ buffers_size = buffers_in

C3_Witness ==
    /\ op = "get_buffers_size"
    /\ last_plane = U32(2)
    /\ Len(strides) = 4
    /\ Len(buffers_in) = 2
    /\ ret = "false"
    /\ buffers_size = buffers_in

\* C4 (as stated): get_buffers_size returns false when last_plane is greater
\* than the format's last-plane index.
C4_RejectsBeyondFormat ==
    op = "get_buffers_size" /\ (~LpSmall \/ Lp > LastPlaneIndex(pixel_format)) =>
        ret = "false"

\* C4 (amended): get_buffers_size returns false exactly when last_plane is at
\* least MAX_NUMBER_OF_PLANES or a slice has fewer than last_plane + 1
\* elements; last_plane is not compared with the format's last-plane index.
C4_RejectsOnlyOutOfRange ==
    op = "get_buffers_size" => (ret = "false" <=> OutOfRange)

C4_Witness ==
    /\ op = "get_buffers_size"
    /\ pixel_format = Bgra
    /\ last_plane = U32(1)
    /\ Len(strides) = 4
    /\ Len(buffers_in) = 4
    /\ ret = "true"
    /\ buffers_size[2] = Usize(0)

\* The slice a call with last_plane = plane count - 1 and all strides
\* automatic leaves: one size per plane.
PerPlaneSizesOf(f, w, h) ==
    get_buffers_size(f, w, h, U32(LastPlaneIndex(f)), DEFAULT_STRIDES,
                     Filled(MAX_NUMBER_OF_PLANES, Stale), overflow_checks).buffers_size

\* C5: with all strides automatic and a width and height that satisfy the
\* format's parity constraint, the total written to buffers_size[0] by a call
\* with last_plane = 0 is the sum of the per-plane sizes written by a call
\* with last_plane = plane count - 1.
C5_CombinedIsSumOfPlanes ==
    (/\ op = "get_buffers_size"
     /\ last_plane = U32(0)
     /\ ~OutOfRange
     /\ AllAuto(strides)
     /\ ParityOK(pixel_format, width, height)) =>
        /\ ret = "true"
        /\ Fits(buffers_size[1])
        /\ Val(buffers_size[1]) =
               SumOf(PerPlaneSizesOf(pixel_format, width, height),
                     PlaneCount(pixel_format))

C5_Witness ==
    /\ op = "get_buffers_size"
    /\ pixel_format = I420
    /\ width = U32(4)
    /\ height = U32(4)
    /\ last_plane = U32(0)
    /\ strides = DEFAULT_STRIDES
    /\ ret = "true"
    /\ buffers_size[1] = Usize(24)

\* Plane slot i is absent for format f: its field of the height descriptor
\* holds the sentinel.
Absent(f, i) == get_plane_value(HEIGHT_SPECS[f + 1], i) = I_P

\* stride[i] * (height >> height_shift[i]) for a present slot, 0 for an
\* absent one; the stride is the caller's, or the automatic one.
Contribution(f, w, h, strds, i) ==
    IF Absent(f, i) THEN 0
    ELSE Val(EffectiveStride(f, w, strds, i).val)
             * (Val(h) \div 2^get_plane_value(HEIGHT_SPECS[f + 1], i))

\* C6: in combined mode (last_plane = 0) every absent plane slot contributes
\* zero whatever the strides argument: the value written to buffers_size[0]
\* is the sum of stride[i] * (height >> height_shift[i]) over the present
\* planes only, also when the caller supplies a non-zero stride for an absent
\* slot.
C6_AbsentPlanesContributeZero ==
    (/\ op = "get_buffers_size"
     /\ last_plane = U32(0)
     /\ ~OutOfRange) =>
        /\ ret = "true"
        /\ Fits(buffers_size[1])
        /\ Val(buffers_size[1]) =
               Contribution(pixel_format, width, height, strides, 0)
                   + Contribution(pixel_format, width, height, strides, 1)
                   + Contribution(pixel_format, width, height, strides, 2)
                   + Contribution(pixel_format, width, height, strides, 3)

\* (width >> width_shift[i]) * bytes_per_sample * (height >> height_shift[i])
AutoSize(f, w, h, i) ==
    (Val(w) \div 2^WidthShift(f, i)) * BytesPerSample(f)
        * (Val(h) \div 2^HeightShift(f, i))

\* The first n elements of a slice hold the sizes in the tuple expected.
HoldsSizes(sizes, expected) ==
    \A i \in 1..Len(expected) : sizes[i] = Usize(expected[i])

\* C7: with strides automatic or missing, per-plane mode (1 <= last_plane <=
\* the format's last-plane index) writes buffers_size[i] =
\* (width >> width_shift[i]) * bytes_per_sample * (height >> height_shift[i])
\* for each i in 0..last_plane, and combined mode for a packed format writes
\* buffers_size[0] = width * bytes_per_sample * height; Bgra 4x4 gives 64,
\* Nv12 4x4 gives 16 and 8, I420 4x4 gives 16, 4, 4 and 24 combined.
C7_AutoSizes ==
    (/\ op = "get_buffers_size"
     /\ ~OutOfRange
     /\ AllAuto(strides)) =>
        /\ (1 <= Lp /\ Lp <= LastPlaneIndex(pixel_format)) =>
               /\ ret = "true"
               /\ \A i \in 0..Lp :
                      /\ Fits(buffers_size[i + 1])
                      /\ Val(buffers_size[i + 1]) =
                             AutoSize(pixel_format, width, height, i)
        /\ (Lp = 0 /\ pixel_format \in PackedFormats) =>
               /\ ret = "true"
               /\ Fits(buffers_size[1])
               /\ Val(buffers_size[1]) =
                      Val(width) * BytesPerSample(pixel_format) * Val(height)
        /\ (width = U32(4) /\ height = U32(4)) =>
               /\ (pixel_format = Bgra /\ Lp = 0) => HoldsSizes(buffers_size, <<64>>)
               /\ (pixel_format = Nv12 /\ Lp = 1) => HoldsSizes(buffers_size, <<16, 8>>)
               /\ (pixel_format = I420 /\ Lp = 2) => HoldsSizes(buffers_size, <<16, 4, 4>>)
               /\ (pixel_format = I420 /\ Lp = 0) => HoldsSizes(buffers_size, <<24>>)

C7_Witness ==
    /\ op = "get_buffers_size"
    /\ pixel_format = Nv12
    /\ width = U32(4)
    /\ height = U32(4)
    /\ last_plane = U32(1)
    /\ Len(strides) = 2
    /\ AllAuto(strides)
    /\ ret = "true"
    /\ HoldsSizes(buffers_size, <<16, 8>>)

\* The slice the same call leaves when every stride is automatic.
AllAutoSizesOf(f, w, h, lp, strds, bufs) ==
    get_buffers_size(f, w, h, lp, Filled(Len(strds), Usize(STRIDE_AUTO)), bufs,
                     overflow_checks).buffers_size

\* C8: an explicit stride s for plane 0 only changes only plane 0's size: a
\* packed format in combined mode gets buffers_size[0] = s * height, and any
\* format in per-plane mode gets buffers_size[0] = s * height while every
\* other written entry is the one obtained with all strides automatic.
C8_OnlyPlane0Changes ==
    (/\ op = "get_buffers_size"
     /\ ~OutOfRange
     /\ OnlyPlane0Explicit(strides)) =>
        /\ ret = "true"
        /\ (Lp >= 1 \/ pixel_format \in PackedFormats) =>
               /\ Fits(buffers_size[1])
               /\ Val(buffers_size[1]) = Val(strides[1]) * Val(height)
        /\ \A i \in 1..Lp :
               buffers_size[i + 1] =
                   AllAutoSizesOf(pixel_format, width, height, last_plane,
                                  strides, buffers_in)[i + 1]

C8_Witness ==
    /\ op = "get_buffers_size"
    /\ pixel_format = I420
    /\ width = U32(4)
    /\ height = U32(4)
    /\ last_plane = U32(2)
    /\ strides = <<Usize(64), Usize(0), Usize(0), Usize(0)>>
    /\ ret = "true"
    /\ HoldsSizes(buffers_size, <<256, 4, 4>>)

\* C9: with last_plane the format's last-plane index, is_compatible is, for
\* I420, Nv12 and P010, true exactly when width and height are both even; for
\* I422, true exactly when width is even, whatever the height; for I444,
\* P410 and the packed formats, true for every width and height.
C9_ParityVerdict ==
    (op = "is_compatible" /\ last_plane = U32(LastPlaneIndex(pixel_format))) =>
        /\ pixel_format \in {I420, Nv12, P010} =>
               (ret = "true" <=> ~IsOdd(width) /\ ~IsOdd(height))
        /\ pixel_format = I422 => (ret = "true" <=> ~IsOdd(width))
        /\ pixel_format \in {I444, P410} \cup PackedFormats => ret = "true"

C9_Witness ==
    /\ op = "is_compatible"
    /\ pixel_format = I422
    /\ width = U32(2)
    /\ height = U32(3)
    /\ last_plane = U32(2)
    /\ ret = "true"

\* C10: for every valid format and every other input the three functions
\* never panic: every index is in bounds and no stride * height product or
\* plane sum of get_buffers_size overflows usize.
C10_NeverPanicsNorOverflows == ret # "panic" /\ ~overflowed

\* The slots of a plane descriptor that hold a shift rather than the
\* sentinel I_P.
PresentSlots(bpp) ==
    {i \in 0..(MAX_NUMBER_OF_PLANES - 1) : get_plane_value(bpp, i) # I_P}

\* A plane descriptor agrees with a last-plane index: every slot 0..index
\* holds a shift of 0 or 1 and every slot above holds the sentinel.  The
\* present slots are then exactly 0..index, and their number is index + 1.
DescriptorAgrees(bpp, index) ==
    \A i \in 0..(MAX_NUMBER_OF_PLANES - 1) :
        get_plane_value(bpp, i) \in (IF i <= index THEN {0, 1} ELSE {I_P})

\* C11: for every ordinal 0..12 the last-plane index of PF_SPECS is the
\* number of non-sentinel fields minus one of both STRIDE_SPECS and
\* HEIGHT_SPECS, the present fields are exactly slots 0..index, each is a
\* shift of 0 or 1, and every slot above the index holds the sentinel 32.
C11_RegistryConsistent ==
    /\ Len(PF_SPECS) = 13 /\ Len(STRIDE_SPECS) = 13 /\ Len(HEIGHT_SPECS) = 13
    /\ \A f \in PixelFormat :
           /\ DescriptorAgrees(STRIDE_SPECS[f + 1], get_pf_planes(PF_SPECS[f + 1]))
           /\ DescriptorAgrees(HEIGHT_SPECS[f + 1], get_pf_planes(PF_SPECS[f + 1]))

\* A call has read the descriptors of Nv12, whose slots 0 and 1 are present
\* (the height of plane 1 halved) and whose slots 2 and 3 are absent.
C11_Witness ==
    /\ op = "get_buffers_size"
    /\ pixel_format = Nv12
    /\ ret = "true"
    /\ get_pf_planes(PF_SPECS[Nv12 + 1]) = 1
    /\ PresentSlots(STRIDE_SPECS[Nv12 + 1]) = {0, 1}
    /\ PresentSlots(HEIGHT_SPECS[Nv12 + 1]) = {0, 1}
    /\ get_plane_value(HEIGHT_SPECS[Nv12 + 1], 1) = 1
    /\ get_plane_value(STRIDE_SPECS[Nv12 + 1], 2) = I_P

\* C12: the idiom x.wrapping_mul(x.wrapping_sub(planes)) == 0 gives the
\* verdict of an ordinary comparison over the whole 32-bit range: for every
\* format and every 32-bit x that is neither 0 nor the format's last-plane
\* index, is_compatible(format, even width, even height, x) and
\* are_planes_compatible(format, x + 1) return false, also for large x such
\* as 2^16 or 2^31.
C12_IdiomIsComparison ==
    /\ (/\ op = "is_compatible"
        /\ ~IsOdd(width) /\ ~IsOdd(height)
        /\ last_plane \notin {U32(0), U32(LastPlaneIndex(pixel_format))})
           => ret = "false"
    /\ (/\ op = "are_planes_compatible"
        /\ wrapping_sub(num_planes, U32(1))
               \notin {U32(0), U32(LastPlaneIndex(pixel_format))})
           => ret = "false"

====
